---- MODULE Spec2Model ----
(***************************************************************************)
(* A model of node-crawler's admission core: the RateLimiter with its      *)
(* priority queue, the cluster of limiters, the crawler's scheduling and   *)
(* release path, and the size-guarded request pipeline.                    *)
(*                                                                         *)
(* Spec          the limiters and the cluster under add() and release      *)
(* SpecSubmit    submit() with priorities of every kind                    *)
(* SpecConstruct the RateLimiter constructor on arguments of every kind    *)
(* SpecExec      one queued request with its own callback, in _execute     *)
(* SpecSend      one request handed to send()                              *)
(* SpecQueue     one queued request together with its limiter              *)
(* SpecDrain     the limiters with timers that fire and tasks that release *)
(* SpecLimiter   the limiters under add(), release and setLimiter()        *)
(* SpecRotate    requests with userAgents and proxies lists, two crawlers  *)
(***************************************************************************)
EXTENDS Integers, Sequences, FiniteSets, TLC

\* ------------------------------------------------------------------ bounds
\* Number of requests handed to Crawler.add in one behaviour.
MaxTasks == 3
\* Last value of the millisecond clock (Date.now()).
MaxTime == 2

\* Limiter ids the requests name (options.rateLimiterId).
LimiterIds == {0, 1}
\* Values of the crawler options the constructor is given.
MaxConnectionsOpts == {1, 2}
RateLimitOpts == {0, 2}
PriorityLevelsOpts == {2}
DefaultPriorityOpts == {1}
\* Requested priorities: an integer, or a value that is not an integer.
IntPriority(n) == [isInt |-> TRUE, val |-> n]
NonIntPriority == [isInt |-> FALSE, val |-> 0]
PriorityOpts == {IntPriority(0), IntPriority(5)}

\* Retry budgets a request starts with (options.retries).
MaxRetries == 1
\* Number of 'data' events one stream delivers at most.
MaxChunks == 3
\* Lengths of the chunks a stream delivers.
ChunkLens == {1, 2}
\* options.maxSizeBytes: a number, or a value that is not a number.
NumberValue(n) == [isNumber |-> TRUE, val |-> n]
NotANumber == [isNumber |-> FALSE, val |-> 0]
MaxSizeBytesOpts ==
    {NotANumber, NumberValue(-1), NumberValue(0), NumberValue(3)}
\* A Content-Length header: absent, or the text of its value.
NoHeader == [present |-> FALSE, text |-> <<>>]
HeaderText(txt) == [present |-> TRUE, text |-> txt]
ContentLengthOpts ==
    {NoHeader, HeaderText(<<>>), HeaderText(<<"2">>), HeaderText(<<"3">>),
     HeaderText(<<"4">>), HeaderText(<<"1", "2">>), HeaderText(<<"x">>)}

VARIABLES
    options,            \* Crawler.options after the constructor
    created,            \* Cluster._rateLimiters: the ids that have a limiter
    runningTasksNumber, \* RateLimiter.runningTasksNumber, per limiter
    nextRequestTime,    \* RateLimiter.nextRequestTime, per limiter
    rateLimit,          \* RateLimiter.rateLimit, per limiter
    waitingTasks,       \* RateLimiter._waitingTasks, per limiter: bucket -> queue
    tasks,              \* the submitted tasks: where each is and what it asked for
    submitted,          \* number of requests scheduled so far
    now,                \* Date.now()
    emitted,            \* the "_release" and "drain" events of the last step
    lastStart,          \* per paced limiter: when it last invoked a task
    rotation,           \* Crawler._UAIndex and _proxyIndex, per crawler instance
    exec                \* one request in Crawler._execute / _handler

limiterVars == <<options, created, runningTasksNumber, nextRequestTime,
                 rateLimit, waitingTasks, tasks, submitted, now, emitted,
                 lastStart, rotation>>

vars == <<limiterVars, exec>>

TaskIds == 1..MaxTasks

\* ------------------------------------------------------------- utilities
Max(a, b) == IF a >= b THEN a ELSE b

RECURSIVE CountOf(_, _)
CountOf(e, s) ==
    IF s = <<>> THEN 0
    ELSE (IF Head(s) = e THEN 1 ELSE 0) + CountOf(e, Tail(s))

\* ------------------------------------------------- Crawler constructor
\* The options after the defaults are merged: a positive rateLimit forces
\* maxConnections to 1.
CrawlerOptions(maxConnections, rl, levels, priority, homogeneous) ==
    [maxConnections |-> IF rl > 0 THEN 1 ELSE maxConnections,
     rateLimit      |-> rl,
     priorityLevels |-> levels,
     priority       |-> priority,
     homogeneous    |-> homogeneous]

\* ------------------------------------------------- multiPriorityQueue
Buckets(levels) == 0..(levels - 1)

EmptyQueue(levels) == [b \in Buckets(levels) |-> <<>>]

RECURSIVE QueueSizeFrom(_, _, _)
QueueSizeFrom(q, b, levels) ==
    IF b >= levels THEN 0 ELSE Len(q[b]) + QueueSizeFrom(q, b + 1, levels)

\* multiPriorityQueue.size(): the pending count across the buckets.
QueueSize(q) == QueueSizeFrom(q, 0, Cardinality(DOMAIN q))

\* The bucket an enqueue at `priority` goes to: the priority clamped into
\* [0, levels-1].
QueueBucket(q, priority) ==
    LET last == Cardinality(DOMAIN q) - 1
    IN  IF priority < 0 THEN 0 ELSE IF priority > last THEN last ELSE priority

\* multiPriorityQueue.enqueue(item, priority): at the tail of the bucket.
QueueEnqueue(q, item, priority) ==
    LET b == QueueBucket(q, priority) IN [q EXCEPT ![b] = Append(@, item)]

\* The lowest-numbered non-empty bucket (the queue is not empty).
QueueFirstBucket(q) ==
    CHOOSE b \in DOMAIN q :
        /\ q[b] # <<>>
        /\ \A c \in DOMAIN q : c < b => q[c] = <<>>

\* multiPriorityQueue.dequeue(): the head of the lowest non-empty bucket.
QueueHead(q) == Head(q[QueueFirstBucket(q)])

QueueDequeue(q) == [q EXCEPT ![QueueFirstBucket(q)] = Tail(@)]

\* ------------------------------------------------------------- Cluster
\* Cluster._waitingTasks(): some limiter of the cluster has a pending task.
ClusterWaitingTasks(wt) == \E k \in created : QueueSize(wt[k]) > 0

\* Cluster.dequeue(): the head of the first limiter (in id order) that has a
\* pending task, taken out of that limiter's queue.
ClusterDequeue(wt) ==
    LET k == CHOOSE i \in created :
                 /\ QueueSize(wt[i]) > 0
                 /\ \A j \in created : j < i => QueueSize(wt[j]) = 0
    IN  [task |-> QueueHead(wt[k]), wt |-> [wt EXCEPT ![k] = QueueDequeue(@)]]

\* Cluster.empty: every limiter has zero running and zero waiting tasks.
ClusterEmpty(run, wt) ==
    \A k \in LimiterIds : run[k] = 0 /\ QueueSize(wt[k]) = 0

\* A limiter holds a reference to its cluster only in homogeneous mode.
HasCluster == options.homogeneous

\* --------------------------------------------------------- RateLimiter
\* RateLimiter._maxConcurrency: every limiter is created with the shared
\* maxConnections.
MaxConcurrency(l) == options.maxConnections

\* A default priority that ignores the configured one.
DefaultPriorityMiddle == options.priorityLevels \div 2

\* RateLimiter._defaultPriority, as the constructor leaves it: the given
\* default if it is an integer, else floor(priorityCount / 2); the clamp on
\* the next source line is computed and discarded.
DefaultPriority ==
    IF options.priority.isInt THEN options.priority.val
    ELSE options.priorityLevels \div 2

\* hasWaitingClients() looking at the own queue only.
HasWaitingClientsOwnOnly(l, wt) == QueueSize(wt[l]) > 0

\* RateLimiter.hasWaitingClients()
HasWaitingClients(l, wt) ==
    IF QueueSize(wt[l]) > 0 THEN TRUE
    ELSE IF HasCluster /\ ClusterWaitingTasks(wt) THEN TRUE
    ELSE FALSE

\* A dequeue() that returns the head and leaves it in the queue.
DequeueKeepsTask(l, wt) ==
    IF QueueSize(wt[l]) > 0
    THEN [task |-> QueueHead(wt[l]), wt |-> wt]
    ELSE [task |-> ClusterDequeue(wt).task, wt |-> wt]

\* RateLimiter.dequeue(): the own head if there is one, else the cluster's.
\* (Called only when hasWaitingClients() holds.)
Dequeue(l, wt) ==
    IF QueueSize(wt[l]) > 0
    THEN [task |-> QueueHead(wt[l]), wt |-> [wt EXCEPT ![l] = QueueDequeue(@)]]
    ELSE ClusterDequeue(wt)

\* submit() clamping an over-large priority to the first level.
ClampedPriorityToFirst(priority, levels) ==
    LET validPriority == IF priority.isInt THEN priority.val ELSE options.priority.val
    IN  IF validPriority > levels - 1 THEN 0 ELSE validPriority

\* The priority submit() enqueues at: the requested one if it is an integer,
\* else the default; clamped from above only.
ClampedPriority(priority, levels) ==
    LET validPriority == IF priority.isInt THEN priority.val ELSE DefaultPriority
    IN  IF validPriority > levels - 1 THEN levels - 1 ELSE validPriority

\* _tryToRun() without the test of the free slot.
CanRunIgnoringSlots(l, S) == HasWaitingClients(l, S.wt)

\* The guard of _tryToRun().
CanRun(l, S) == S.run[l] < MaxConcurrency(l) /\ HasWaitingClients(l, S.wt)

\* A _tryToRun() that calls the task itself when there is nothing to wait
\* for, instead of arming a timer.
TryToRunCallsAtOnce(l, S) ==
    IF CanRun(l, S)
    THEN LET wait == Max(S.nrt[l] - now, 0)
             d    == Dequeue(l, S.wt)
         IN  [run |-> [S.run EXCEPT ![l] = @ + 1],
              nrt |-> [S.nrt EXCEPT ![l] = now + wait + rateLimit[l]],
              wt  |-> d.wt,
              tk  |-> [S.tk EXCEPT ![d.task] =
                          IF wait = 0
                          THEN [@ EXCEPT !.st = "running", !.runner = l]
                          ELSE [@ EXCEPT !.st = "timer", !.runner = l,
                                         !.due = now + wait]]]
    ELSE S

\* _tryToRun() on limiter l, in limiter state S = [run, nrt, wt, tk]: takes a
\* slot, advances nextRequestTime, dequeues a task and arms its timer.
TryToRun(l, S) ==
    IF CanRun(l, S)
    THEN LET wait == Max(S.nrt[l] - now, 0)
             d    == Dequeue(l, S.wt)
         IN  [run |-> [S.run EXCEPT ![l] = @ + 1],
              nrt |-> [S.nrt EXCEPT ![l] = now + wait + rateLimit[l]],
              wt  |-> d.wt,
              tk  |-> [S.tk EXCEPT ![d.task] =
                          [@ EXCEPT !.st = "timer", !.runner = l,
                                    !.due = now + wait]]]
    ELSE S

\* A submit() that enqueues the task and does not try to run it.
SubmitWithoutTryToRun(l, priority, t, S) ==
    LET levels == options.priorityLevels
        q      == QueueEnqueue(S.wt[l], t, ClampedPriority(priority, levels))
    IN  [S EXCEPT !.wt = [S.wt EXCEPT ![l] = q]]

\* submit(priority, task) on limiter l.
Submit(l, priority, t, S) ==
    LET levels == options.priorityLevels
        q      == QueueEnqueue(S.wt[l], t, ClampedPriority(priority, levels))
    IN  TryToRun(l, [S EXCEPT !.wt = [S.wt EXCEPT ![l] = q]])

\* A done() that gives the slot back and dispatches nothing.
DoneWithoutDispatch(l, S) == [S EXCEPT !.run = [S.run EXCEPT ![l] = @ - 1]]

\* done(): gives the slot back and tries to run the next task.
Done(l, S) == TryToRun(l, [S EXCEPT !.run = [S.run EXCEPT ![l] = @ - 1]])

\* ------------------------------------------------------------- Crawler
\* A "_release" listener that emits "drain" on every release.
ReleaseListenerAlways(run, wt) == <<"_release", "drain">>

\* The listener of "_release" the constructor installs: emits "drain" when
\* the cluster is empty.
ReleaseListener(run, wt) ==
    IF ClusterEmpty(run, wt) THEN <<"_release", "drain">> ELSE <<"_release">>

\* ---------------------------------------------------- request options
\* The fields of a request's options the pipeline reads.
\* (preRequest, callback: whether the caller supplied the function.)
RequestOptions(maxSizeBytes, rejectOnMissing, retries, preRequest, callback) ==
    [maxSizeBytes                 |-> maxSizeBytes,
     rejectOnMissingContentLength |-> rejectOnMissing,
     retries                      |-> retries,
     preRequest                   |-> preRequest,
     callback                     |-> callback]

\* The closure variables of streamRequest, with what the transport has
\* done to the stream so far.
NoStream ==
    [live |-> FALSE, of |-> 0, receivedBytes |-> 0, dataChunks |-> <<>>,
     requestAborted |-> FALSE, destroyed |-> 0, responded |-> FALSE,
     headers |-> NoHeader, wire |-> 0, pending |-> 0, events |-> 0,
     ended |-> FALSE, errored |-> FALSE]

\* What a call of _handler came to: nothing yet, a value it returned, or an
\* error it threw.
NoResult == [kind |-> "none", value |-> [error |-> "none", body |-> 0]]
Returned(value) == [kind |-> "returned", value |-> value]
Thrown(value) == [kind |-> "thrown", value |-> value]

\* Values _handler returns besides a response: undefined (a retry was
\* armed), or whatever the callback returned.
Undefined == [error |-> "undefined", body |-> 0]
CallbackValue == [error |-> "callback", body |-> 0]

\* The promise send() returns; a queued request has none.
NoPromise == [state |-> "none", value |-> Undefined]
PendingPromise == [state |-> "pending", value |-> Undefined]

\* A request that was accepted by add() and has not been executed yet.
NewRequest(r) ==
    [req |-> r, direct |-> FALSE, initialRetries |-> r.retries, pc |-> "new",
     attempt |-> 0, probe |-> "none", probeLength |-> NoHeader,
     hookCalls |-> 0, started |-> FALSE, stream |-> NoStream,
     handled |-> <<>>, delivered |-> <<>>, timers |-> 0,
     result |-> NoResult, promise |-> NoPromise, uncaught |-> <<>>]

\* A request handed to send(): the preRequest hook is deleted, and the
\* caller holds the promise of the first _execute call.
SentRequest(r) ==
    [NewRequest([r EXCEPT !.preRequest = FALSE]) EXCEPT
        !.direct = TRUE, !.promise = PendingPromise]

LimiterState ==
    [run |-> runningTasksNumber, nrt |-> nextRequestTime,
     wt |-> waitingTasks, tk |-> tasks]

ReleasedTask ==
    [st |-> "released", home |-> 0, prio |-> IntPriority(0), runner |-> 0, due |-> 0]

NoTask == [st |-> "none", home |-> 0, prio |-> IntPriority(0), runner |-> 0, due |-> 0]

\* The crawler instances with which a behaviour may deal.
CrawlerIds == {0, 1}

\* The rotation options of a request: the crawler it was given to, the
\* number of times _execute ran for it, its retry budget, the lengths of its
\* userAgents and proxies lists (0: not an array), and the user-agent header
\* and the proxy it has, each told by its position in its list.
NoProxy == [set |-> FALSE, entry |-> -1]
FixedProxy == [set |-> TRUE, entry |-> -1]
ListProxy(i) == [set |-> TRUE, entry |-> i]

\* A request that has no userAgents list, no proxies list and no proxy.
NoRotatingRequest ==
    [crawler |-> 0, runs |-> 0, retries |-> 0, userAgents |-> 0,
     proxies |-> 0, userAgent |-> -1, proxy |-> NoProxy]

\* _UAIndex = 0 and _proxyIndex = 0 in every instance, as constructed, and
\* no request with a list to rotate.
NoRotation ==
    [UAIndex    |-> [c \in CrawlerIds |-> 0],
     proxyIndex |-> [c \in CrawlerIds |-> 0],
     executions |-> [c \in CrawlerIds |-> 0],
     requests   |-> [q \in TaskIds |-> NoRotatingRequest]]

\* The limiter side of a crawler to which nothing has been added.
NothingAdded ==
    /\ created = {}
    /\ runningTasksNumber = [l \in LimiterIds |-> 0]
    /\ nextRequestTime = [l \in LimiterIds |-> 0]
    /\ rateLimit = [l \in LimiterIds |-> options.rateLimit]
    /\ waitingTasks = [l \in LimiterIds |-> EmptyQueue(options.priorityLevels)]
    /\ tasks = [t \in TaskIds |-> NoTask]
    /\ submitted = 0
    /\ now = 0
    /\ emitted = <<>>
    /\ lastStart = [l \in LimiterIds |-> -1]

Init ==
    /\ options \in {CrawlerOptions(m, r, n, p, h) :
                       m \in MaxConnectionsOpts, r \in RateLimitOpts,
                       n \in PriorityLevelsOpts,
                       p \in {IntPriority(d) : d \in DefaultPriorityOpts},
                       h \in BOOLEAN}
    /\ created = {}
    /\ runningTasksNumber = [l \in LimiterIds |-> 0]
    /\ nextRequestTime = [l \in LimiterIds |-> 0]
    /\ rateLimit = [l \in LimiterIds |-> options.rateLimit]
    /\ waitingTasks = [l \in LimiterIds |-> EmptyQueue(options.priorityLevels)]
    /\ tasks = [t \in TaskIds |-> NoTask]
    /\ submitted = 0
    /\ now = 0
    /\ emitted = <<>>
    /\ lastStart = [l \in LimiterIds |-> -1]
    /\ rotation = NoRotation
    /\ exec = NewRequest(RequestOptions(NotANumber, FALSE, 0, FALSE, TRUE))

\* Crawler._schedule(options): getRateLimiter(id), created on first use, and
\* submit(priority, task).
Schedule(l, priority) ==
    /\ submitted < MaxTasks
    /\ LET t  == submitted + 1
           S0 == [LimiterState EXCEPT
                     !.nrt = IF l \in created THEN @ ELSE [@ EXCEPT ![l] = now],
                     !.tk  = [@ EXCEPT ![t] =
                                 [@ EXCEPT !.st = "waiting", !.home = l,
                                           !.prio = priority]]]
           S1 == Submit(l, priority, t, S0)
       IN  /\ runningTasksNumber' = S1.run
           /\ nextRequestTime' = S1.nrt
           /\ waitingTasks' = S1.wt
           /\ tasks' = S1.tk
           /\ submitted' = t
    /\ created' = created \cup {l}
    /\ emitted' = <<>>
    /\ UNCHANGED <<options, rateLimit, now, lastStart, rotation, exec>>

\* The pacing timer of task t fires: the limiter invokes the task with its
\* done handle. A timer never fires before it is due; it may fire late.
InvokeTask(t) ==
    /\ tasks[t].st = "timer"
    /\ now >= tasks[t].due
    /\ tasks' = [tasks EXCEPT ![t] = [@ EXCEPT !.st = "running", !.due = 0]]
    /\ lastStart' = IF rateLimit[tasks[t].runner] > 0
                    THEN [lastStart EXCEPT ![tasks[t].runner] = now]
                    ELSE lastStart
    /\ emitted' = <<>>
    /\ UNCHANGED <<options, created, runningTasksNumber, nextRequestTime,
                   rateLimit, waitingTasks, submitted, now, rotation>>

\* The timer of a task that is not the request followed in `exec`.
TimerFire(t) == InvokeTask(t) /\ UNCHANGED exec

\* options.release() of task t: done() and then the "_release" event.
ReleaseHandle(t) ==
    /\ LET S0 == [LimiterState EXCEPT !.tk = [@ EXCEPT ![t] = ReleasedTask]]
           S1 == Done(tasks[t].runner, S0)
       IN  /\ runningTasksNumber' = S1.run
           /\ nextRequestTime' = S1.nrt
           /\ waitingTasks' = S1.wt
           /\ tasks' = S1.tk
           /\ emitted' = ReleaseListener(S1.run, S1.wt)
    /\ UNCHANGED <<options, created, rateLimit, submitted, now, lastStart,
                   rotation>>

\* The callback of a running task invokes the release handle it was given.
Release(t) ==
    /\ tasks[t].st = "running"
    /\ ReleaseHandle(t)
    /\ UNCHANGED exec

\* A millisecond passes.
Tick ==
    /\ now < MaxTime
    /\ now' = now + 1
    /\ emitted' = <<>>
    /\ UNCHANGED <<options, created, runningTasksNumber, nextRequestTime,
                   rateLimit, waitingTasks, tasks, submitted, lastStart,
                   rotation, exec>>

Next ==
    \/ \E l \in LimiterIds, p \in PriorityOpts : Schedule(l, p)
    \/ \E t \in TaskIds : TimerFire(t)
    \/ \E t \in TaskIds : Release(t)
    \/ Tick

Spec == Init /\ [][Next]_vars

\* ------------------------------------------------- priorities of all kinds
\* Priorities a request may name: below the range, in it, above it, and not
\* an integer; default priorities in the range and on either side of it.
SubmitPriorityOpts ==
    {IntPriority(-1), IntPriority(0), IntPriority(1), IntPriority(5),
     NonIntPriority}
SubmitLevelsOpts == {2, 3}
SubmitDefaultOpts == {-1, 1, 3}

InitSubmit ==
    /\ options \in {CrawlerOptions(1, 0, n, IntPriority(d), FALSE) :
                       n \in SubmitLevelsOpts, d \in SubmitDefaultOpts}
    /\ NothingAdded
    /\ rotation = NoRotation
    /\ exec = NewRequest(RequestOptions(NotANumber, FALSE, 0, FALSE, TRUE))

NextSubmit ==
    \/ \E p \in SubmitPriorityOpts : Schedule(0, p)
    \/ \E t \in TaskIds : TimerFire(t)
    \/ \E t \in TaskIds : Release(t)

SpecSubmit == InitSubmit /\ [][NextSubmit]_vars

\* ------------------------------------------------ tasks that all release
\* Time passes while a timer is armed for a later moment.
TimePasses ==
    /\ \E t \in TaskIds : tasks[t].st = "timer" /\ tasks[t].due > now
    /\ now' = now + 1
    /\ emitted' = <<>>
    /\ UNCHANGED <<options, created, runningTasksNumber, nextRequestTime,
                   rateLimit, waitingTasks, tasks, submitted, lastStart,
                   rotation, exec>>

\* (Requests of one priority: the order of a queue plays no part in whether
\* it drains.)
NextDrain ==
    \/ \E l \in LimiterIds : Schedule(l, IntPriority(0))
    \/ \E t \in TaskIds : TimerFire(t)
    \/ \E t \in TaskIds : Release(t)
    \/ TimePasses

\* The event loop runs every timer that is due, the clock advances, and
\* every task that was invoked calls its release handle.
SpecDrain ==
    /\ Init
    /\ [][NextDrain]_vars
    /\ WF_vars(\E t \in TaskIds : TimerFire(t))
    /\ WF_vars(\E t \in TaskIds : Release(t))
    /\ WF_vars(TimePasses)

\* ------------------------------------------- the RateLimiter constructor
\* A number handed to the constructor: an integer, or one that is not (1.5).
IntegerValue(n) == [isInt |-> TRUE, val |-> n]
NonIntegerValue == [isInt |-> FALSE, val |-> 1]
ConstructorValueOpts ==
    {IntegerValue(-1), IntegerValue(0), IntegerValue(1), IntegerValue(2),
     NonIntegerValue}

\* The options of new RateLimiter(..).
RateLimiterOptions(maxConcurrency, rl, priorityCount) ==
    [maxConcurrency |-> maxConcurrency, rateLimit |-> rl,
     priorityCount |-> priorityCount]

\* The test that makes the constructor throw: Number.isInteger of each of
\* the three.
ConstructorThrows(o) ==
    ~o.maxConcurrency.isInt \/ ~o.rateLimit.isInt \/ ~o.priorityCount.isInt

\* A crawler with no limiter yet; `options` holds what the constructor of
\* its limiters will be given.
InitConstruct ==
    /\ options \in {RateLimiterOptions(m, r, n) :
                       m \in ConstructorValueOpts, r \in ConstructorValueOpts,
                       n \in ConstructorValueOpts}
    /\ created = {}
    /\ runningTasksNumber = [l \in LimiterIds |-> 0]
    /\ nextRequestTime = [l \in LimiterIds |-> 0]
    /\ rateLimit = [l \in LimiterIds |-> 0]
    /\ waitingTasks = [l \in LimiterIds |-> EmptyQueue(0)]
    /\ tasks = [t \in TaskIds |-> NoTask]
    /\ submitted = 0
    /\ now = 0
    /\ emitted = <<>>
    /\ lastStart = [l \in LimiterIds |-> -1]
    /\ rotation = NoRotation
    /\ exec = NewRequest(RequestOptions(NotANumber, FALSE, 0, FALSE, TRUE))

\* new RateLimiter(options) for the id l: throws, or leaves a limiter with
\* its fields initialised.
NewRateLimiter(l) ==
    /\ l \notin created
    /\ IF ConstructorThrows(options)
       THEN /\ emitted' = <<"throw">>
            /\ UNCHANGED <<created, runningTasksNumber, nextRequestTime,
                           rateLimit, waitingTasks>>
       ELSE /\ created' = created \cup {l}
            /\ runningTasksNumber' = [runningTasksNumber EXCEPT ![l] = 0]
            /\ nextRequestTime' = [nextRequestTime EXCEPT ![l] = now]
            /\ rateLimit' = [rateLimit EXCEPT ![l] = options.rateLimit.val]
            /\ waitingTasks' = [waitingTasks EXCEPT
                                   ![l] = EmptyQueue(options.priorityCount.val)]
            /\ emitted' = <<>>
    /\ UNCHANGED <<options, tasks, submitted, now, lastStart, rotation, exec>>

NextConstruct == \E l \in LimiterIds : NewRateLimiter(l)

SpecConstruct == InitConstruct /\ [][NextConstruct]_vars

\* ============================================== Crawler._execute / _handler
RECURSIVE Sum(_)
Sum(seq) == IF seq = <<>> THEN 0 ELSE Head(seq) + Sum(Tail(seq))

Digits == <<"0", "1", "2", "3", "4", "5", "6", "7", "8", "9">>

IsDigit(c) == \E i \in DOMAIN Digits : Digits[i] = c

DigitValue(c) == (CHOOSE i \in DOMAIN Digits : Digits[i] = c) - 1

RECURSIVE ParseDigits(_, _)
ParseDigits(text, acc) ==
    IF text = <<>> \/ ~IsDigit(Head(text)) THEN acc
    ELSE ParseDigits(Tail(text), acc * 10 + DigitValue(Head(text)))

\* parseInt(text, 10): the value of the leading decimal digits, NaN if the
\* text does not start with one.
ParseInt(text) ==
    IF text = <<>> \/ ~IsDigit(Head(text)) THEN [nan |-> TRUE, val |-> 0]
    ELSE [nan |-> FALSE, val |-> ParseDigits(text, 0)]

\* `if (contentLength)`: the header is there and is not the empty string.
Truthy(h) == h.present /\ h.text # <<>>

\* The test both Content-Length checks make: !isNaN(fileSize) && fileSize > max.
TooLarge(h, max) ==
    LET fileSize == ParseInt(h.text) IN ~fileSize.nan /\ fileSize.val > max

\* A ceiling test that takes every number for a ceiling.
SizeLimitedAnyNumber(r) == r.maxSizeBytes.isNumber

\* typeof maxSizeBytes === 'number' && maxSizeBytes > 0
SizeLimited(r) == r.maxSizeBytes.isNumber /\ r.maxSizeBytes.val > 0

\* options.callback is a function: the caller's, or on the queued path the
\* release handle the task installs in its place.
HasCallback(x) == x.req.callback \/ ~x.direct

\* What the callback is handed.
Failure(code) == [error |-> code, body |-> 0]
Success(length) == [error |-> "none", body |-> length]

\* An error handler that hands every error to the callback at once, budget
\* or not.
HandlerErrorNoRetry(code, x) ==
    [x EXCEPT !.handled = Append(@, Failure(code)),
              !.pc = "end",
              !.delivered = Append(@, Failure(code)),
              !.result = Returned(CallbackValue)]

\* _handler(error, options): a retry timer while the budget lasts, else the
\* callback with the error.
HandlerError(code, x) ==
    LET x1 == [x EXCEPT !.handled = Append(@, Failure(code))]
    IN  IF x.req.retries > 0
        THEN [x1 EXCEPT !.pc = "retry", !.timers = @ + 1,
                        !.result = Returned(Undefined)]
        ELSE IF HasCallback(x)
        THEN [x1 EXCEPT !.pc = "end", !.delivered = Append(@, Failure(code)),
                        !.result = Returned(CallbackValue)]
        ELSE [x1 EXCEPT !.pc = "end", !.result = Thrown(Failure(code))]

\* _handler(null, options, response): the callback with the response, or
\* the response itself where there is no callback.
HandlerResponse(length, x) ==
    LET x1 == [x EXCEPT !.handled = Append(@, Success(length)), !.pc = "end"]
    IN  IF HasCallback(x)
        THEN [x1 EXCEPT !.delivered = Append(@, Success(length)),
                        !.result = Returned(CallbackValue)]
        ELSE [x1 EXCEPT !.result = Returned(Success(length))]

\* requestFn(): streamRequest when a size limit is set, else originalRequest.
StartRequest(x) ==
    IF SizeLimited(x.req)
    THEN [x EXCEPT !.pc = "stream", !.started = TRUE,
                   !.stream = [NoStream EXCEPT !.live = TRUE, !.of = x.attempt]]
    ELSE [x EXCEPT !.pc = "plain", !.started = TRUE]

\* _execute after the preliminary check passed: the preRequest hook if there
\* is one (the request function runs from its continuation), else the
\* request function.
AfterSizeCheck(x) ==
    IF x.req.preRequest
    THEN [x EXCEPT !.pc = "hook", !.hookCalls = @ + 1]
    ELSE StartRequest(x)

\* _execute(options) up to its first await: the HEAD request when a size
\* limit is set.
Execute(x) ==
    LET x1 == [x EXCEPT !.attempt = @ + 1, !.probe = "none",
                        !.probeLength = NoHeader, !.started = FALSE,
                        !.handled = <<>>]
    IN  IF SizeLimited(x1.req)
        THEN [x1 EXCEPT !.pc = "head", !.probe = "pending"]
        ELSE AfterSizeCheck(x1)

\* A HEAD check that reports its error and goes on to the request all the
\* same (the early return is missing).
HeadCheckFallsThrough(h, x) ==
    LET x1 == [x EXCEPT !.probe = "ok", !.probeLength = h]
    IN  IF Truthy(h) /\ TooLarge(h, x.req.maxSizeBytes.val)
        THEN StartRequest(HandlerError("ERR_FILE_TOO_LARGE_HEAD", x1))
        ELSE IF ~Truthy(h) /\ x.req.rejectOnMissingContentLength
        THEN StartRequest(HandlerError("ERR_MISSING_CONTENT_LENGTH_HEAD", x1))
        ELSE AfterSizeCheck(x1)

\* A HEAD check that rejects a missing Content-Length whatever the flag says.
HeadCheckIgnoresFlag(h, x) ==
    LET x1 == [x EXCEPT !.probe = "ok", !.probeLength = h]
    IN  IF Truthy(h)
        THEN IF TooLarge(h, x.req.maxSizeBytes.val)
             THEN HandlerError("ERR_FILE_TOO_LARGE_HEAD", x1)
             ELSE AfterSizeCheck(x1)
        ELSE HandlerError("ERR_MISSING_CONTENT_LENGTH_HEAD", x1)

\* The HEAD check on a HEAD response with Content-Length h.
HeadCheck(h, x) ==
    LET x1 == [x EXCEPT !.probe = "ok", !.probeLength = h]
    IN  IF Truthy(h)
        THEN IF TooLarge(h, x.req.maxSizeBytes.val)
             THEN HandlerError("ERR_FILE_TOO_LARGE_HEAD", x1)
             ELSE AfterSizeCheck(x1)
        ELSE IF x.req.rejectOnMissingContentLength
             THEN HandlerError("ERR_MISSING_CONTENT_LENGTH_HEAD", x1)
             ELSE AfterSizeCheck(x1)

\* A catch of the HEAD request that aborts (the stricter option the source
\* leaves commented out).
HeadCatchAborts(x) ==
    HandlerError("ERR_HEAD_REQUEST_FAILED", [x EXCEPT !.probe = "failed"])

\* The catch of the HEAD request: logged, and the request goes on.
HeadCatch(x) == AfterSizeCheck([x EXCEPT !.probe = "failed"])

\* An abortRequest that destroys the stream and reports the error without
\* recording that it did.
AbortRequestKeepsFlag(code, x) ==
    HandlerError(code, [x EXCEPT !.stream.destroyed = @ + 1])

\* abortRequest(error) of streamRequest.
AbortRequest(code, x) ==
    IF ~x.stream.requestAborted
    THEN HandlerError(code, [x EXCEPT !.stream.requestAborted = TRUE,
                                      !.stream.destroyed = @ + 1])
    ELSE x

\* A 'response' handler that records the headers and checks nothing.
OnResponseUnchecked(h, x) == [x EXCEPT !.stream.headers = h]

\* stream.on('response')
OnResponse(h, x) ==
    LET x1 == [x EXCEPT !.stream.headers = h]
    IN  IF Truthy(h) /\ TooLarge(h, x.req.maxSizeBytes.val)
        THEN AbortRequest("ERR_FILE_TOO_LARGE_RESPONSE_HEADER", x1)
        ELSE x1

\* A 'data' handler without the test of requestAborted.
OnDataUnguarded(len, x) ==
    LET x1 == [x EXCEPT !.stream.receivedBytes = @ + len,
                        !.stream.dataChunks = Append(@, len)]
    IN  IF x1.stream.receivedBytes > x.req.maxSizeBytes.val
        THEN AbortRequest("ERR_FILE_TOO_LARGE_STREAM", x1)
        ELSE x1

\* stream.on('data')
OnData(len, x) ==
    IF x.stream.requestAborted THEN x
    ELSE LET x1 == [x EXCEPT !.stream.receivedBytes = @ + len,
                             !.stream.dataChunks = Append(@, len)]
         IN  IF x1.stream.receivedBytes > x.req.maxSizeBytes.val
             THEN AbortRequest("ERR_FILE_TOO_LARGE_STREAM", x1)
             ELSE x1

\* stream.on('downloadProgress')
OnDownloadProgress(transferred, x) ==
    IF x.stream.requestAborted THEN x
    ELSE IF transferred > x.req.maxSizeBytes.val
         THEN AbortRequest("ERR_FILE_TOO_LARGE_STREAM", x)
         ELSE x

\* An 'end' handler without the test of requestAborted.
OnEndUnguarded(x) == HandlerResponse(Sum(x.stream.dataChunks), x)

\* stream.on('end')
OnEnd(x) ==
    IF x.stream.requestAborted THEN x
    ELSE HandlerResponse(Sum(x.stream.dataChunks), x)

\* stream.on('error')
OnError(x) ==
    IF ~x.stream.requestAborted
    THEN HandlerError("ERR_TRANSPORT", [x EXCEPT !.stream.requestAborted = TRUE])
    ELSE x

\* ------------------------------------------- where a result of _handler goes
\* The promise of this _execute call is the one send() returned, and is
\* still pending.
SettlesSend(x) == x.direct /\ x.attempt = 1 /\ x.promise.state = "pending"

\* _handler was called in the body of an async function that _execute
\* awaits: what it returned fulfils the promise of that _execute call and
\* what it threw rejects it. Only the first call's promise is held by anyone.
Async(x) ==
    LET x1 == [x EXCEPT !.result = NoResult]
    IN  IF x.result.kind = "returned"
        THEN IF SettlesSend(x)
             THEN [x1 EXCEPT !.promise = [state |-> "fulfilled",
                                          value |-> x.result.value]]
             ELSE x1
        ELSE IF x.result.kind = "thrown"
        THEN IF SettlesSend(x)
             THEN [x1 EXCEPT !.promise = [state |-> "rejected",
                                          value |-> x.result.value]]
             ELSE [x1 EXCEPT !.uncaught = Append(@, x.result.value)]
        ELSE x1

\* _handler was called in a listener of the stream, as
\* resolve(this._handler(..)): what it returned resolves the promise, what it
\* threw leaves the listener as an uncaught exception.
Listener(x) ==
    LET x1 == [x EXCEPT !.result = NoResult]
    IN  IF x.result.kind = "returned"
        THEN IF SettlesSend(x)
             THEN [x1 EXCEPT !.promise = [state |-> "fulfilled",
                                          value |-> x.result.value]]
             ELSE x1
        ELSE IF x.result.kind = "thrown"
        THEN [x1 EXCEPT !.uncaught = Append(@, x.result.value)]
        ELSE x1

\* The request followed in `exec`, when it is queued, is the first task.
Tracked == 1

\* A callback that releases the slot whoever supplied it.
CallbackEffectAlwaysReleases ==
    IF Len(exec'.delivered) > Len(exec.delivered)
    THEN ReleaseHandle(Tracked)
    ELSE UNCHANGED limiterVars

\* What the callback invoked in this step does to the limiter: where the
\* caller gave none, the callback is the release handle.
CallbackEffect ==
    IF ~exec.req.callback /\ ~exec.direct
          /\ Len(exec'.delivered) > Len(exec.delivered)
    THEN ReleaseHandle(Tracked)
    ELSE UNCHANGED limiterVars

\* ------------------------------------------------------------- actions
\* The limiter invokes the request's task, which calls _execute.
StartExecute ==
    /\ exec.pc = "new"
    /\ ~exec.direct
    /\ InvokeTask(Tracked)
    /\ exec' = Execute(exec)

\* send(options) calls _execute.
Send ==
    /\ exec.pc = "new"
    /\ exec.direct
    /\ exec' = Execute(exec)
    /\ UNCHANGED limiterVars

\* The HEAD request answers with Content-Length h.
HeadResponse(h) ==
    /\ exec.pc = "head"
    /\ exec' = Async(HeadCheck(h, exec))
    /\ CallbackEffect

\* The HEAD request fails (network error, 405, timeout).
HeadFailure ==
    /\ exec.pc = "head"
    /\ exec' = Async(HeadCatch(exec))
    /\ CallbackEffect

\* The preRequest hook invokes its continuation without an error.
HookContinue ==
    /\ exec.pc = "hook"
    /\ exec' = StartRequest(exec)
    /\ UNCHANGED limiterVars

\* The preRequest hook invokes its continuation with an error.
HookAbort ==
    /\ exec.pc = "hook"
    /\ exec' = Async(HandlerError("USER_ABORT", exec))
    /\ CallbackEffect

\* got(gotOptions) of originalRequest resolves with a body of some length.
PlainResponse(length) ==
    /\ exec.pc = "plain"
    /\ exec' = Async(HandlerResponse(length, exec))
    /\ CallbackEffect

\* got(gotOptions) of originalRequest rejects.
PlainError ==
    /\ exec.pc = "plain"
    /\ exec' = Async(HandlerError("ERR_TRANSPORT", exec))
    /\ CallbackEffect

\* The stream receives the response headers, with Content-Length h.
StreamResponse(h) ==
    /\ exec.stream.live
    /\ ~exec.stream.responded
    /\ ~exec.stream.errored
    /\ exec' = Listener(OnResponse(h, [exec EXCEPT !.stream.responded = TRUE]))
    /\ CallbackEffect

\* The transport counts the next chunk and reports the progress; the chunk's
\* 'data' event follows.
StreamProgress(len) ==
    /\ exec.stream.live
    /\ exec.stream.responded
    /\ ~exec.stream.ended
    /\ exec.stream.pending = 0
    /\ exec.stream.events < MaxChunks
    /\ exec' = Listener(OnDownloadProgress(exec.stream.wire + len,
                                           [exec EXCEPT !.stream.pending = len]))
    /\ CallbackEffect

\* The stream delivers a chunk.
StreamData(len) ==
    /\ exec.stream.live
    /\ exec.stream.responded
    /\ ~exec.stream.ended
    /\ exec.stream.events < MaxChunks
    /\ exec.stream.pending \in {0, len}
    /\ exec' = Listener(OnData(len, [exec EXCEPT !.stream.pending = 0,
                                                 !.stream.wire = @ + len,
                                                 !.stream.events = @ + 1]))
    /\ CallbackEffect

\* The stream ends.
StreamEnd ==
    /\ exec.stream.live
    /\ exec.stream.responded
    /\ ~exec.stream.ended
    /\ exec.stream.pending = 0
    /\ exec' = Listener(OnEnd([exec EXCEPT !.stream.ended = TRUE]))
    /\ CallbackEffect

\* The stream reports an error (of the network, or the one it was destroyed
\* with).
StreamError ==
    /\ exec.stream.live
    /\ ~exec.stream.errored
    /\ exec' = Listener(OnError([exec EXCEPT !.stream.errored = TRUE]))
    /\ CallbackEffect

\* The retry timer of _handler fires: retries-- and _execute again.
RetryFire ==
    /\ exec.timers > 0
    /\ exec' = Execute([exec EXCEPT !.timers = @ - 1, !.req.retries = @ - 1])
    /\ UNCHANGED limiterVars

\* The limiter side after add(request) on an idle crawler: limiter 0 is
\* created and submit() has armed the timer of the request's task.
RequestAdded ==
    /\ now = 0
    /\ rateLimit = [l \in LimiterIds |-> options.rateLimit]
    /\ created = {0}
    /\ LET S == Submit(0, IntPriority(0), Tracked,
                       [run |-> [l \in LimiterIds |-> 0],
                        nrt |-> [l \in LimiterIds |-> 0],
                        wt  |-> [l \in LimiterIds |->
                                    EmptyQueue(options.priorityLevels)],
                        tk  |-> [t \in TaskIds |->
                                    IF t = Tracked
                                    THEN [NoTask EXCEPT !.st = "waiting",
                                                        !.prio = IntPriority(0)]
                                    ELSE NoTask]])
       IN  /\ runningTasksNumber = S.run
           /\ nextRequestTime = S.nrt
           /\ waitingTasks = S.wt
           /\ tasks = S.tk
    /\ submitted = 1
    /\ emitted = <<>>
    /\ lastStart = [l \in LimiterIds |-> -1]
    /\ rotation = NoRotation

InitExec ==
    /\ options = CrawlerOptions(1, 0, 2, IntPriority(1), FALSE)
    /\ RequestAdded
    /\ exec \in {NewRequest(RequestOptions(m, j, n, h, TRUE)) :
                    m \in MaxSizeBytesOpts, j \in BOOLEAN,
                    n \in 0..MaxRetries, h \in BOOLEAN}

NextExec ==
    \/ StartExecute
    \/ \E h \in ContentLengthOpts : HeadResponse(h)
    \/ HeadFailure
    \/ HookContinue
    \/ HookAbort
    \/ \E n \in 0..MaxChunks : PlainResponse(n)
    \/ PlainError
    \/ \E h \in ContentLengthOpts : StreamResponse(h)
    \/ \E c \in ChunkLens : StreamProgress(c)
    \/ \E c \in ChunkLens : StreamData(c)
    \/ StreamEnd
    \/ StreamError
    \/ RetryFire

SpecExec == InitExec /\ [][NextExec]_vars

\* ------------------------------------------------------------ setLimiter
\* Values handed to setLimiter(id, "rateLimit", value).
SetRateLimitOpts ==
    {IntegerValue(-1), IntegerValue(0), IntegerValue(2), NonIntegerValue}

\* RateLimiter.setRateLimit(value): throws unless the value is an integer,
\* else stores it. (The result: whether it threw, and the rateLimit after.)
SetRateLimit(value, rl) ==
    IF ~value.isInt THEN [threw |-> TRUE, rateLimit |-> rl]
    ELSE [threw |-> FALSE, rateLimit |-> value.val]

\* Crawler.setLimiter(l, "rateLimit", value): getRateLimiter(l), creating
\* the limiter on first use, and setRateLimit(value) on it.
SetLimiter(l, value) ==
    /\ created' = created \cup {l}
    /\ nextRequestTime' = IF l \in created THEN nextRequestTime
                          ELSE [nextRequestTime EXCEPT ![l] = now]
    /\ LET r == SetRateLimit(value, rateLimit[l])
       IN  /\ rateLimit' = [rateLimit EXCEPT ![l] = r.rateLimit]
           /\ emitted' = IF r.threw THEN <<"throw">> ELSE <<>>
    /\ UNCHANGED <<options, runningTasksNumber, waitingTasks, tasks, submitted,
                   now, lastStart, rotation, exec>>

\* A crawler whose limiters do not borrow from each other.
InitLimiter == Init /\ ~HasCluster

\* (Requests of one priority, to the limiter that setLimiter names.)
NextLimiter ==
    \/ Schedule(0, IntPriority(0))
    \/ \E t \in TaskIds : TimerFire(t)
    \/ \E t \in TaskIds : Release(t)
    \/ Tick
    \/ \E v \in SetRateLimitOpts : SetLimiter(0, v)

SpecLimiter == InitLimiter /\ [][NextLimiter]_vars

\* ------------------------------------------- userAgents and proxies lists
\* Lengths of the lists the requests are given (0: no list).
ListLengthOpts == {0, 2, 3}

\* _execute: `if (Array.isArray(options.userAgents))`, with this._UAIndex.
RotateUserAgents(index, o) ==
    IF o.userAgents > 0
    THEN LET i == index % o.userAgents
         IN  [index |-> i + 1, o |-> [o EXCEPT !.userAgent = i]]
    ELSE [index |-> index, o |-> o]

\* _execute: `if (!options.proxy && Array.isArray(options.proxies))`, with
\* this._proxyIndex; the entry is stored in options.proxy.
RotateProxies(index, o) ==
    IF ~o.proxy.set /\ o.proxies > 0
    THEN LET i == index % o.proxies
         IN  [index |-> i + 1, o |-> [o EXCEPT !.proxy = ListProxy(i)]]
    ELSE [index |-> index, o |-> o]

\* _execute(options) for request q, as far as the rotation: the first
\* execution, or the one of a retry timer (retries-- and _execute with the
\* same options object).
ExecuteRotating(q) ==
    LET o  == rotation.requests[q]
        c  == o.crawler
        o1 == IF o.runs > 0 THEN [o EXCEPT !.retries = @ - 1] ELSE o
        ua == RotateUserAgents(rotation.UAIndex[c], o1)
        px == RotateProxies(rotation.proxyIndex[c], ua.o)
    IN  /\ o.runs = 0 \/ o.retries > 0
        /\ rotation' =
               [rotation EXCEPT
                   !.UAIndex[c] = ua.index,
                   !.proxyIndex[c] = px.index,
                   !.executions[c] = @ + 1,
                   !.requests[q] = [px.o EXCEPT !.runs = @ + 1]]
        /\ UNCHANGED <<options, created, runningTasksNumber, nextRequestTime,
                       rateLimit, waitingTasks, tasks, submitted, now, emitted,
                       lastStart, exec>>

\* Requests given to two crawlers, all with the same lists, and with a
\* fixed proxy or none.
InitRotate ==
    /\ options = CrawlerOptions(1, 0, 2, IntPriority(1), FALSE)
    /\ NothingAdded
    /\ exec = NewRequest(RequestOptions(NotANumber, FALSE, 0, FALSE, TRUE))
    /\ \E n \in ListLengthOpts, m \in ListLengthOpts,
          p \in {NoProxy, FixedProxy} :
          \E cs \in [TaskIds -> CrawlerIds], rs \in [TaskIds -> 0..MaxRetries] :
              rotation =
                  [NoRotation EXCEPT
                      !.requests =
                          [q \in TaskIds |->
                              [NoRotatingRequest EXCEPT
                                  !.crawler = cs[q], !.retries = rs[q],
                                  !.userAgents = n, !.proxies = m,
                                  !.proxy = p]]]

NextRotate == \E q \in TaskIds : ExecuteRotating(q)

SpecRotate == InitRotate /\ [][NextRotate]_vars

\* ------------------------------------------------------ the direct path
\* One request handed to send() on an idle crawler, with or without a
\* callback.
InitSend ==
    /\ options = CrawlerOptions(1, 0, 2, IntPriority(1), FALSE)
    /\ NothingAdded
    /\ rotation = NoRotation
    /\ exec \in {SentRequest(RequestOptions(m, j, n, h, c)) :
                    m \in MaxSizeBytesOpts, j \in BOOLEAN,
                    n \in 0..MaxRetries, h \in BOOLEAN, c \in BOOLEAN}

NextSend ==
    \/ Send
    \/ \E h \in ContentLengthOpts : HeadResponse(h)
    \/ HeadFailure
    \/ \E n \in 0..MaxChunks : PlainResponse(n)
    \/ PlainError
    \/ \E h \in ContentLengthOpts : StreamResponse(h)
    \/ \E c \in ChunkLens : StreamProgress(c)
    \/ \E c \in ChunkLens : StreamData(c)
    \/ StreamEnd
    \/ StreamError
    \/ RetryFire

SpecSend == InitSend /\ [][NextSend]_vars

\* ------------------------------------------------------ the queued path
\* One request added to an idle crawler, with or without a callback, and
\* the requests added after it to the same limiter.
InitQueue ==
    /\ options \in {CrawlerOptions(m, 0, 2, IntPriority(1), FALSE) :
                       m \in MaxConnectionsOpts}
    /\ RequestAdded
    /\ exec \in {NewRequest(RequestOptions(m, FALSE, n, h, c)) :
                    m \in {NotANumber, NumberValue(3)},
                    n \in 0..MaxRetries, h \in BOOLEAN, c \in BOOLEAN}

\* The caller's callback, having been invoked, invokes the release handle it
\* was passed.
CallerRelease ==
    /\ exec.req.callback
    /\ exec.delivered # <<>>
    /\ Release(Tracked)

NextQueue ==
    \/ Schedule(0, IntPriority(0))
    \/ \E t \in TaskIds \ {Tracked} : TimerFire(t)
    \/ \E t \in TaskIds \ {Tracked} : Release(t)
    \/ CallerRelease
    \/ StartExecute
    \/ \E h \in {NoHeader, HeaderText(<<"4">>)} : HeadResponse(h)
    \/ HeadFailure
    \/ HookContinue
    \/ HookAbort
    \/ PlainResponse(MaxChunks)
    \/ PlainError
    \/ \E h \in {NoHeader, HeaderText(<<"4">>)} : StreamResponse(h)
    \/ StreamProgress(2)
    \/ StreamData(2)
    \/ StreamEnd
    \/ StreamError
    \/ RetryFire

SpecQueue == InitQueue /\ [][NextQueue]_vars

\* ================================================================ claims
\* The priority level the specification gives a requested priority: the
\* request's own if it is an integer, else the configured default, clamped
\* into [0, levels-1].
Level(priority) ==
    LET p    == IF priority.isInt THEN priority.val ELSE options.priority.val
        last == options.priorityLevels - 1
    IN  IF p < 0 THEN 0 ELSE IF p > last THEN last ELSE p

InFlight(t) == tasks[t].st \in {"timer", "running"}

\* C1: in every reachable state every limiter has
\* 0 <= runningTasksNumber <= maxConcurrency (each dispatched task releases
\* at most once).
C1_RunningWithinConcurrency ==
    \A l \in LimiterIds :
        /\ 0 <= runningTasksNumber[l]
        /\ runningTasksNumber[l] <= MaxConcurrency(l)

\* A limiter with two slots, both taken, and a task left waiting in its queue.
C1_Witness ==
    \E l \in LimiterIds :
        /\ MaxConcurrency(l) = 2
        /\ runningTasksNumber[l] = 2
        /\ QueueSize(waitingTasks[l]) > 0

\* C2: whenever a task leaves a limiter's queue, every task left behind in
\* that queue has a numerically larger priority level, or the same level and
\* a later submission.
C2_DequeueInPriorityFifoOrder ==
    [][\A d, u \in TaskIds :
          ( /\ tasks[d].st \in {"none", "waiting"}
            /\ tasks'[d].st = "timer"
            /\ tasks'[u].st = "waiting"
            /\ tasks'[u].home = tasks'[d].home )
          => \/ Level(tasks'[d].prio) < Level(tasks'[u].prio)
             \/ /\ Level(tasks'[d].prio) = Level(tasks'[u].prio)
                /\ d < u]_vars

\* A task dispatched ahead of an earlier submission of the same queue that
\* has a larger priority level and is still waiting.
C2_Witness ==
    \E d, u \in TaskIds :
        /\ u < d
        /\ InFlight(d)
        /\ tasks[u].st = "waiting"
        /\ tasks[u].home = tasks[d].home
        /\ Level(tasks[d].prio) < Level(tasks[u].prio)

\* C3: on a limiter with rateLimit R > 0, a task is never invoked less than
\* R milliseconds after the task the limiter invoked before it.
C3_StartsAtLeastRateLimitApart ==
    [][\A t \in TaskIds :
          ( /\ tasks[t].st = "timer"
            /\ tasks'[t].st = "running"
            /\ rateLimit[tasks[t].runner] > 0
            /\ lastStart[tasks[t].runner] >= 0 )
          => now - lastStart[tasks[t].runner] >= rateLimit[tasks[t].runner]]_vars

\* The cluster is idle: no task is waiting in a queue or holds a slot.
Idle == \A t \in TaskIds : tasks[t].st \in {"none", "released"}

\* C4: a step emits "drain" exactly once if it takes the cluster from busy
\* to idle, and not at all otherwise.
C4_DrainOncePerBusyToIdle ==
    [][CountOf("drain", emitted') = IF ~Idle /\ Idle' THEN 1 ELSE 0]_vars

\* The drain event of a busy period in which two tasks were released.
C4_Witness ==
    /\ CountOf("drain", emitted) = 1
    /\ Cardinality({t \in TaskIds : tasks[t].st = "released"}) >= 2

\* C5: with cluster borrowing, a limiter whose own queue is empty while a
\* sibling has pending work reports waiting clients and dequeues a task
\* submitted to a sibling; a limiter with a non-empty own queue dequeues its
\* own head.
C5_BorrowsFromSibling ==
    HasCluster =>
        \A l \in created :
            /\ ( /\ QueueSize(waitingTasks[l]) = 0
                 /\ \E k \in created \ {l} : QueueSize(waitingTasks[k]) > 0 )
               => /\ HasWaitingClients(l, waitingTasks)
                  /\ LET d == Dequeue(l, waitingTasks)
                     IN  /\ tasks[d.task].st = "waiting"
                         /\ tasks[d.task].home # l
                         /\ QueueSize(d.wt[tasks[d.task].home]) =
                                QueueSize(waitingTasks[tasks[d.task].home]) - 1
            /\ QueueSize(waitingTasks[l]) > 0
               => tasks[Dequeue(l, waitingTasks).task].home = l

\* A task submitted to one limiter holds a slot of another.
C5_Witness ==
    \E t \in TaskIds : InFlight(t) /\ tasks[t].runner # tasks[t].home

\* ------------------------------------------------ the size guard's claims
RECURSIVE NumeralValue(_)
\* The number a text of decimal digits writes.
NumeralValue(text) ==
    IF text = <<>> THEN 0
    ELSE 10 * NumeralValue(SubSeq(text, 1, Len(text) - 1))
         + DigitValue(text[Len(text)])

\* The header declares a length, and one greater than max.
DeclaresMoreThan(h, max) ==
    /\ h.present
    /\ h.text # <<>>
    /\ \A i \in DOMAIN h.text : IsDigit(h.text[i])
    /\ NumeralValue(h.text) > max

\* The header declares no length.
DeclaresNothing(h) == ~h.present \/ h.text = <<>>

Ceiling == exec.req.maxSizeBytes.val

\* The transfer of the current attempt was started, as a monitored stream.
StreamStarted == exec.started /\ exec.stream.live /\ exec.stream.of = exec.attempt

\* The current attempt has passed the HEAD check: no error of the check was
\* handled, and the monitored transfer was started, or (with a preRequest
\* hook, from whose continuation the transfer starts) the hook is pending
\* or has aborted the attempt.
ProceedsToStream ==
    /\ \A i \in DOMAIN exec.handled :
           exec.handled[i].error \notin
               {"ERR_FILE_TOO_LARGE_HEAD", "ERR_MISSING_CONTENT_LENGTH_HEAD",
                "ERR_HEAD_REQUEST_FAILED"}
    /\ exec.started => StreamStarted
    /\ IF exec.req.preRequest
       THEN \/ exec.pc = "hook"
            \/ StreamStarted
            \/ exec.handled = <<Failure("USER_ABORT")>>
       ELSE StreamStarted

\* The current attempt ended at the HEAD check with the error `code`: it is
\* the one outcome handled, no transfer was started, and the callback has
\* the error unless a retry budget was left.
RejectedAtHead(code) ==
    /\ exec.handled = <<Failure(code)>>
    /\ ~exec.started
    /\ exec.stream.of # exec.attempt
    /\ IF exec.req.retries > 0
       THEN exec.pc = "retry"
       ELSE /\ exec.pc = "end"
            /\ exec.delivered # <<>>
            /\ exec.delivered[Len(exec.delivered)] = Failure(code)

\* C6: a HEAD response that declares a length greater than the ceiling ends
\* the attempt with ERR_FILE_TOO_LARGE_HEAD, no transfer is started in the
\* attempt, and with no retry budget left the callback receives the error.
C6_HeadRejectsTooLarge ==
    ( /\ SizeLimited(exec.req)
      /\ exec.probe = "ok"
      /\ DeclaresMoreThan(exec.probeLength, Ceiling) )
    => RejectedAtHead("ERR_FILE_TOO_LARGE_HEAD")

\* The callback has ERR_FILE_TOO_LARGE_HEAD from the second attempt, after a
\* retry.
C6_Witness ==
    /\ exec.pc = "end"
    /\ exec.attempt = 2
    /\ DeclaresMoreThan(exec.probeLength, Ceiling)
    /\ exec.delivered = <<Failure("ERR_FILE_TOO_LARGE_HEAD")>>

C7_WitnessReject ==
    /\ exec.probe = "ok"
    /\ exec.req.rejectOnMissingContentLength
    /\ exec.delivered = <<Failure("ERR_MISSING_CONTENT_LENGTH_HEAD")>>

C9_StreamRejectsAndFreezes ==
    [][exec'.stream.of = exec.stream.of =>
          /\ ( /\ exec.stream.receivedBytes <= Ceiling
               /\ exec'.stream.receivedBytes > Ceiling )
             => /\ exec'.stream.requestAborted
                /\ exec'.stream.destroyed = 1
                /\ exec'.handled = Append(exec.handled,
                                          Failure("ERR_FILE_TOO_LARGE_STREAM"))
          /\ exec.stream.requestAborted
             => /\ exec'.stream.receivedBytes = exec.stream.receivedBytes
                /\ exec'.stream.dataChunks = exec.stream.dataChunks
                /\ exec'.stream.destroyed = exec.stream.destroyed]_vars

\* A stream rejected for its size that has since been handed another chunk
\* and its end.
C9_Witness ==
    /\ exec.stream.receivedBytes > Ceiling
    /\ exec.stream.requestAborted
    /\ exec.stream.wire > exec.stream.receivedBytes
    /\ exec.stream.ended
    /\ exec.delivered = <<Failure("ERR_FILE_TOO_LARGE_STREAM")>>

\* C10: when the response headers of the transfer declare a length greater
\* than the ceiling, the request is aborted with
\* ERR_FILE_TOO_LARGE_RESPONSE_HEADER as the attempt's first outcome, and no
\* chunk of the body is ever accumulated.
C10_ResponseHeaderRejects ==
    ( /\ StreamStarted
      /\ exec.stream.responded
      /\ DeclaresMoreThan(exec.stream.headers, Ceiling) )
    => /\ exec.stream.requestAborted
       /\ exec.stream.destroyed = 1
       /\ exec.handled # <<>>
       /\ exec.handled[1] = Failure("ERR_FILE_TOO_LARGE_RESPONSE_HEADER")
       /\ exec.stream.receivedBytes = 0
       /\ exec.stream.dataChunks = <<>>

\* The HEAD response declared a length within the ceiling, the transfer's
\* headers one beyond it, and chunks arrived after the rejection.
C10_Witness ==
    /\ exec.probe = "ok"
    /\ Truthy(exec.probeLength)
    /\ ~DeclaresMoreThan(exec.probeLength, Ceiling)
    /\ StreamStarted
    /\ DeclaresMoreThan(exec.stream.headers, Ceiling)
    /\ exec.stream.wire > 0
    /\ exec.delivered = <<Failure("ERR_FILE_TOO_LARGE_RESPONSE_HEADER")>>

RequestIssued == exec.probe # "none" \/ exec.started

\* C12: when the continuation of the preRequest hook is invoked with an
\* error, the callback receives that error; and the hook of a request has
\* run before a HEAD probe or a transfer is issued for it.
C12_HookAbortDeliveredHookFirst ==
    [][/\ exec'.handled = Append(exec.handled, Failure("USER_ABORT"))
          => exec'.delivered = Append(exec.delivered, Failure("USER_ABORT"))
       /\ (exec.req.preRequest /\ RequestIssued') => exec'.hookCalls > 0]_vars

\* The callback was handed the error `code`.
Received(code) ==
    \E i \in DOMAIN exec.delivered : exec.delivered[i] = Failure(code)

\* C13: with a preRequest hook and a size ceiling, the hook has been invoked
\* by the time the callback receives ERR_FILE_TOO_LARGE_HEAD or
\* ERR_FILE_TOO_LARGE_STREAM.
C13_HookRanBeforeSizeRejection ==
    ( /\ exec.req.preRequest
      /\ SizeLimited(exec.req)
      /\ \/ Received("ERR_FILE_TOO_LARGE_HEAD")
         \/ Received("ERR_FILE_TOO_LARGE_STREAM") )
    => exec.hookCalls > 0

\* The attempt in progress was aborted by the preRequest hook.
AbortedByHook ==
    /\ exec.handled # <<>>
    /\ exec.handled[Len(exec.handled)] = Failure("USER_ABORT")

\* C14: the error the preRequest hook gives its continuation is handed to
\* the callback in the same step, whatever retry budget is left; no retry
\* timer is armed, and after the abort the request is not executed again,
\* the budget is not decremented and no probe or transfer is issued.
C14_HookAbortNotRetried ==
    [][/\ exec'.handled = Append(exec.handled, Failure("USER_ABORT"))
          => /\ exec'.delivered = Append(exec.delivered, Failure("USER_ABORT"))
             /\ exec'.timers = exec.timers
             /\ exec'.req.retries = exec.req.retries
       /\ AbortedByHook
          => /\ exec'.attempt = exec.attempt
             /\ exec'.req.retries = exec.req.retries
             /\ exec'.probe = exec.probe
             /\ exec'.started = exec.started]_vars

\* No attempt of the request has succeeded.
EveryAttemptFailed ==
    \A i \in DOMAIN exec.delivered : exec.delivered[i].error # "none"

\* C15: a request none of whose attempts succeeds, with initial budget N, is
\* executed at most N+1 times, the executions so far and the budget left
\* adding up to N+1; its callback is invoked at most once, and when it is,
\* the budget is 0, the request has been executed N+1 times, no retry is
\* pending, and the error is the one of the last attempt.
C15_RetriesThenOneCallback ==
    EveryAttemptFailed =>
        /\ exec.attempt <= exec.initialRetries + 1
        /\ exec.req.retries >= 0
        /\ exec.attempt >= 1
           => exec.attempt + exec.req.retries = exec.initialRetries + 1
        /\ Len(exec.handled) <= 1
        /\ exec.timers = (IF exec.pc = "retry" THEN 1 ELSE 0)
        /\ Len(exec.delivered) <= 1
        /\ exec.delivered # <<>>
           => /\ exec.req.retries = 0
              /\ exec.attempt = exec.initialRetries + 1
              /\ exec.timers = 0
              /\ exec.handled = exec.delivered

\* The callback has the stream error of the last of the N+1 executions; the
\* budget was not zero to begin with.
C15_Witness ==
    /\ exec.initialRetries = MaxRetries
    /\ exec.attempt = MaxRetries + 1
    /\ exec.req.retries = 0
    /\ exec.delivered = <<Failure("ERR_FILE_TOO_LARGE_STREAM")>>

\* The request has failed for good: _handler was given an error with no
\* retry budget left.
TerminalFailure ==
    /\ exec.pc = "end"
    /\ exec.handled # <<>>
    /\ exec.handled[Len(exec.handled)].error # "none"
    /\ exec.req.retries = 0

\* C18: for a request handed to send() without a callback, no error is
\* thrown outside the promise send() returned, the promise is never
\* fulfilled with undefined, and once the request has failed for good the
\* promise is rejected with the error of that failure.
C18_SendRejectsOnTerminalFailure ==
    (exec.direct /\ ~exec.req.callback) =>
        /\ exec.uncaught = <<>>
        /\ exec.promise # [state |-> "fulfilled", value |-> Undefined]
        /\ TerminalFailure
           => exec.promise = [state |-> "rejected",
                              value |-> exec.handled[Len(exec.handled)]]

\* The request's task holds its admission slot.
SlotHeld == tasks[Tracked].st = "running"

\* C16: in every step of a retry cycle (the step in which an attempt fails
\* and the retry timer is armed, the steps of the wait, and the step that
\* executes the request again) the request's task holds its slot before and
\* after: its release handle is not invoked and runningTasksNumber is not
\* decremented for it.
C16_SlotHeldThroughRetry ==
    [][(exec.pc = "retry" \/ exec'.pc = "retry") => (SlotHeld /\ SlotHeld')]_vars

\* C17: for a queued request with its own callback, no step of its
\* execution (success, terminal failure, retry) touches the slot of its
\* task, the limiter's running count or its queue; the task gives its slot
\* back only in a step of the caller, after the callback was invoked with
\* the release handle.
C17_ReleaseOnlyByCaller ==
    [][exec.req.callback =>
          /\ (exec' # exec /\ exec.pc # "new")
             => /\ tasks' = tasks
                /\ runningTasksNumber' = runningTasksNumber
                /\ waitingTasks' = waitingTasks
          /\ (SlotHeld /\ ~SlotHeld')
             => /\ exec' = exec
                /\ exec.delivered # <<>>
                /\ runningTasksNumber'[0] <= runningTasksNumber[0]]_vars

\* The callback received the error of the second attempt and the caller has
\* released the slot, which a later request now holds.
C17_Witness ==
    /\ exec.req.callback
    /\ exec.attempt = 2
    /\ exec.delivered = <<Failure("ERR_TRANSPORT")>>
    /\ tasks[Tracked].st = "released"
    /\ \E t \in TaskIds \ {Tracked} : tasks[t].st = "running"

\* The callback received a response and the caller still holds the slot; a
\* later request waits for it.
C17_WitnessHeld ==
    /\ exec.req.callback
    /\ exec.delivered # <<>>
    /\ exec.delivered[1].error = "none"
    /\ SlotHeld
    /\ MaxConcurrency(0) = 1
    /\ QueueSize(waitingTasks[0]) > 0

\* The bucket of queue q that holds task t.
InBucket(q, b, t) == \E i \in DOMAIN q[b] : q[b][i] = t

PositiveInteger(v) == v.isInt /\ v.val > 0

\* C20: a limiter exists only if maxConcurrency, rateLimit and
\* priorityCount were all positive integers; with any other value the
\* constructor throws and creates nothing.
C20_ConstructorRejectsNonPositive ==
    [][\A l \in LimiterIds :
          ( /\ l \notin created
            /\ \/ ~PositiveInteger(options.maxConcurrency)
               \/ ~PositiveInteger(options.rateLimit)
               \/ ~PositiveInteger(options.priorityCount) )
          => /\ l \notin created'
             /\ emitted' = <<"throw">>]_vars

\* No size ceiling is configured: maxSizeBytes is absent, not a number, or
\* not greater than zero.
NoCeiling == ~exec.req.maxSizeBytes.isNumber \/ exec.req.maxSizeBytes.val <= 0

SizeErrors ==
    {"ERR_FILE_TOO_LARGE_HEAD", "ERR_MISSING_CONTENT_LENGTH_HEAD",
     "ERR_HEAD_REQUEST_FAILED", "ERR_FILE_TOO_LARGE_RESPONSE_HEADER",
     "ERR_FILE_TOO_LARGE_STREAM"}

\* C21: with no size ceiling configured no HEAD probe is issued and no
\* monitored stream is opened in any attempt; the transfer, once started, is
\* the plain transport call; no size error is ever handled; and a body of
\* any length the transport resolves with is delivered to the callback.
C21_NoCeilingNoGuard ==
    NoCeiling =>
        /\ exec.probe = "none"
        /\ exec.stream = NoStream
        /\ exec.pc \in {"new", "hook", "plain", "retry", "end"}
        /\ (exec.started /\ exec.handled = <<>>) => exec.pc = "plain"
        /\ \A i \in DOMAIN exec.handled : exec.handled[i].error \notin SizeErrors
        /\ \A i \in DOMAIN exec.delivered :
               exec.delivered[i].error \notin SizeErrors
        /\ exec.pc = "plain"
           => \A n \in 0..(2 * MaxChunks) :
                  HandlerResponse(n, exec).delivered =
                      Append(exec.delivered, Success(n))

\* With maxSizeBytes = -1 and a hook, the second attempt delivered the
\* longest body.
C21_Witness ==
    /\ exec.req.maxSizeBytes = NumberValue(-1)
    /\ exec.req.preRequest
    /\ exec.attempt = 2
    /\ exec.delivered = <<Success(MaxChunks)>>

\* With maxSizeBytes = 0 the plain transfer is in flight.
C21_WitnessZero ==
    /\ exec.req.maxSizeBytes = NumberValue(0)
    /\ exec.pc = "plain"

\* C22: the task a limiter invokes at the end of a pacing wait is, at the
\* moment of the invocation, the oldest task of the lowest-numbered
\* non-empty level: no task still waiting in the queue it came from has a
\* smaller level, or the same level and an earlier submission (so a task of
\* higher priority submitted during the wait is invoked first).
C22_InvokedIsHeadAtInvocation ==
    [][\A d, u \in TaskIds :
          ( /\ tasks[d].st = "timer"
            /\ tasks'[d].st = "running"
            /\ tasks[u].st = "waiting"
            /\ tasks[u].home = tasks[d].home )
          => \/ Level(tasks[d].prio) < Level(tasks[u].prio)
             \/ /\ Level(tasks[d].prio) = Level(tasks[u].prio)
                /\ d < u]_vars

\* No limiter has a task in its queue or a slot taken.
Quiescent ==
    \A l \in LimiterIds :
        runningTasksNumber[l] = 0 /\ QueueSize(waitingTasks[l]) = 0

\* C23: when every armed timer fires and every invoked task calls release
\* once, the cluster ends up for good with every submitted task invoked and
\* released, every queue empty and no slot taken; and whenever a task is
\* waiting or holds a slot, a later step emits "drain"; at no time does a
\* limiter have a task in its queue and a slot of its own free.
C23_EveryTaskRunsAndClusterDrains ==
    /\ <>[](Idle /\ Quiescent)
    /\ [](\A l \in LimiterIds :
             QueueSize(waitingTasks[l]) > 0
             => runningTasksNumber[l] >= MaxConcurrency(l))
    /\ ~Idle ~> (CountOf("drain", emitted) = 1)

\* All the tasks were submitted, invoked and released, the last of them
\* after a pacing wait, and the last release emitted "drain".
C23_Witness ==
    /\ submitted = MaxTasks
    /\ \A t \in TaskIds : tasks[t].st = "released"
    /\ Quiescent
    /\ now = MaxTime
    /\ CountOf("drain", emitted) = 1

AbortCodes == {"ERR_FILE_TOO_LARGE_RESPONSE_HEADER", "ERR_FILE_TOO_LARGE_STREAM"}

\* The number of errors of an abort among the outcomes handled in the
\* current attempt.
AbortsHandled ==
    Cardinality({i \in DOMAIN exec.handled : exec.handled[i].error \in AbortCodes})

\* C24: a monitored transfer is destroyed at most once, and the error
\* handler is invoked for an abort exactly as often; the abort reports the
\* error of the condition that triggered it (the response header's in the
\* step of the response, the stream's in a step of data or progress); and
\* no event of the stream after the abort changes what was handled, what
\* was delivered, the retry timers, or the stream's counters.
C24_AbortSingleFire ==
    [][/\ exec'.stream.destroyed <= 1
       /\ exec'.stream.of = exec'.attempt
          => Cardinality({i \in DOMAIN exec'.handled :
                             exec'.handled[i].error \in AbortCodes})
                 = exec'.stream.destroyed
       /\ ( /\ exec'.stream.of = exec.stream.of
            /\ exec.stream.destroyed = 0
            /\ exec'.stream.destroyed = 1 )
          => /\ exec'.stream.requestAborted
             /\ exec'.handled =
                    Append(exec.handled,
                           Failure(IF ~exec.stream.responded
                                   THEN "ERR_FILE_TOO_LARGE_RESPONSE_HEADER"
                                   ELSE "ERR_FILE_TOO_LARGE_STREAM"))
       /\ ( /\ exec'.stream.of = exec.stream.of
            /\ exec'.stream # exec.stream
            /\ exec.stream.destroyed = 1 )
          => /\ exec'.handled = exec.handled
             /\ exec'.delivered = exec.delivered
             /\ exec'.timers = exec.timers
             /\ exec'.pc = exec.pc
             /\ exec'.attempt = exec.attempt
             /\ exec'.stream.destroyed = 1
             /\ exec'.stream.requestAborted
             /\ exec'.stream.receivedBytes = exec.stream.receivedBytes
             /\ exec'.stream.dataChunks = exec.stream.dataChunks]_vars

\* A transfer aborted at its second chunk has since been handed a third
\* chunk, its end and an error; the callback has the one error of the abort.
C24_Witness ==
    /\ exec.stream.of = exec.attempt
    /\ exec.stream.destroyed = 1
    /\ exec.stream.dataChunks = <<2, 2>>
    /\ exec.stream.events = 3
    /\ exec.stream.ended
    /\ exec.stream.errored
    /\ AbortsHandled = 1
    /\ exec.delivered = <<Failure("ERR_FILE_TOO_LARGE_STREAM")>>

\* C25: a monitored transfer attempt reports one outcome to _handler and
\* no more: never two, whatever the order of the stream's events, and one
\* as soon as the stream has ended, failed or been destroyed.
C25_OneOutcomePerTransfer ==
    exec.stream.of = exec.attempt =>
        /\ Len(exec.handled) <= 1
        /\ (exec.stream.ended \/ exec.stream.errored \/ exec.stream.destroyed > 0)
           => Len(exec.handled) = 1

\* C26: for a queued request without a callback of its own, the step in
\* which the request succeeds or fails for good gives its task's slot
\* back; the slot is given back in no other step (not when a retry is
\* armed, waited for or run); it is given back once, the release handle
\* never being invoked for a task already released; and a request that has
\* ended holds no slot.
C26_ReleasedOnceAtTerminalOutcome ==
    [][~exec.req.callback =>
          /\ Len(exec'.delivered) > Len(exec.delivered)
             => /\ SlotHeld
                /\ tasks'[Tracked].st = "released"
                /\ runningTasksNumber'[0] \in
                       {runningTasksNumber[0] - 1, runningTasksNumber[0]}
          /\ (SlotHeld /\ ~SlotHeld')
             => /\ Len(exec'.delivered) = Len(exec.delivered) + 1
                /\ exec'.pc = "end"
                /\ exec'.timers = 0
          /\ Len(exec'.delivered) <= 1
          /\ exec'.pc = "end" => tasks'[Tracked].st = "released"
          /\ runningTasksNumber'[0] >= 0]_vars

\* C27: every limiter with rateLimit > 0 has maxConcurrency 1, and so at
\* most one task in flight, also after setLimiter gave it a positive
\* rateLimit.
C27_PacedLimiterIsSerial ==
    \A l \in created :
        rateLimit[l] > 0
        => MaxConcurrency(l) = 1 /\ runningTasksNumber[l] <= 1

\* C28: no step (add, timer, release, setLimiter, the clock) decreases the
\* nextRequestTime of a limiter that exists.
C28_NextRequestTimeNeverDecreases ==
    [][\A l \in created : nextRequestTime'[l] >= nextRequestTime[l]]_vars

\* Task t is invoked in this step.
Invoked(t) == tasks[t].st # "running" /\ tasks'[t].st = "running"

\* C29: a task is invoked only in the turn of its own timer, which changes
\* no queue and no running count; the step of a submit() or of a release
\* invokes no task, and arms the timer of one task at most.
C29_DispatchIsDeferred ==
    [][/\ \A t \in TaskIds :
              Invoked(t)
              => /\ tasks[t].st = "timer"
                 /\ now >= tasks[t].due
                 /\ \A u \in TaskIds \ {t} : tasks'[u] = tasks[u]
                 /\ submitted' = submitted
                 /\ waitingTasks' = waitingTasks
                 /\ runningTasksNumber' = runningTasksNumber
       /\ ( \/ submitted' # submitted
            \/ \E u \in TaskIds :
                   tasks[u].st = "running" /\ tasks'[u].st = "released" )
          => /\ \A t \in TaskIds : ~Invoked(t)
             /\ Cardinality({t \in TaskIds :
                                tasks[t].st # "timer" /\ tasks'[t].st = "timer"})
                    <= 1]_vars

\* A chain on a limiter of one slot, within one millisecond: every task but
\* the last was invoked and released at once, and the release of the last
\* but one has armed the timer of the last.
C29_Witness ==
    /\ now = 0
    /\ submitted = MaxTasks
    /\ MaxConcurrency(0) = 1
    /\ \A t \in TaskIds \ {MaxTasks} : tasks[t].st = "released"
    /\ tasks[MaxTasks].st = "timer"
    /\ tasks[MaxTasks].home = 0
    /\ tasks[MaxTasks].due = 0
    /\ emitted = <<"_release">>

\* C30: while the preRequest hook of the request has not invoked its
\* continuation, the request's task holds its slot, and still holds it after
\* every step that leaves the hook pending; on a limiter of one slot the
\* running count stays 1 and no other task is armed or invoked.
C30_PendingHookHoldsSlot ==
    [][exec.pc = "hook" =>
          /\ SlotHeld
          /\ exec'.pc = "hook" => SlotHeld'
          /\ MaxConcurrency(0) = 1
             => /\ runningTasksNumber[0] = 1
                /\ \A t \in TaskIds \ {Tracked} : ~InFlight(t)
                /\ exec'.pc = "hook"
                   => /\ runningTasksNumber'[0] = 1
                      /\ \A t \in TaskIds \ {Tracked} : ~InFlight(t)']_vars

\* Request q is executed in this step.
Executed(q) == rotation'.requests[q].runs = rotation.requests[q].runs + 1

\* C31: the k-th execution on a crawler (k counted from 0, retries
\* included) of a request with a userAgents list of length n gets entry
\* k mod n, and of a request with a proxies list of length m and no fixed
\* proxy gets entry k mod m; and an execution on one crawler leaves the
\* indices of every other crawler unchanged.
C31_RoundRobinPerCrawler ==
    [][\A q \in TaskIds :
          Executed(q) =>
              LET o == rotation.requests[q]
                  k == rotation.executions[o.crawler]
              IN  /\ o.userAgents > 0
                     => rotation'.requests[q].userAgent = k % o.userAgents
                  /\ (o.proxies > 0 /\ o.proxy # FixedProxy)
                     => rotation'.requests[q].proxy = ListProxy(k % o.proxies)
                  /\ \A d \in CrawlerIds \ {o.crawler} :
                         /\ rotation'.UAIndex[d] = rotation.UAIndex[d]
                         /\ rotation'.proxyIndex[d] = rotation.proxyIndex[d]]_vars

\* C32: in every state (each is the state after a submit, a release or a
\* timer turn has returned) no limiter has a slot free and a task in its
\* own queue.
C32_WorkConserving ==
    \A l \in LimiterIds :
        ~( /\ runningTasksNumber[l] < MaxConcurrency(l)
           /\ QueueSize(waitingTasks[l]) > 0 )

\* Just after a release on a limiter of one slot: the released task's slot
\* went to the next task of the queue, and a third task still waits there.
C32_Witness ==
    /\ emitted = <<"_release">>
    /\ \E l \in LimiterIds :
           /\ MaxConcurrency(l) = 1
           /\ runningTasksNumber[l] = 1
           /\ QueueSize(waitingTasks[l]) = 1
           /\ \E t, u \in TaskIds :
                  /\ tasks[t].st = "released"
                  /\ tasks[u].st = "timer"
                  /\ tasks[u].runner = l
                  /\ tasks[u].home = l
                  /\ tasks[QueueHead(waitingTasks[l])].home = l

RECURSIVE PlacesFrom(_, _, _)
\* The number of places task t has in queue q, from bucket b on.
PlacesFrom(q, b, t) ==
    IF b \notin DOMAIN q THEN 0
    ELSE CountOf(t, q[b]) + PlacesFrom(q, b + 1, t)

\* The number of places task t has in the queue of limiter l.
PlacesIn(l, t) == PlacesFrom(waitingTasks[l], 0, t)

\* Every submitted task is in exactly one of three conditions: waiting
\* (one place in the queue of the limiter it was submitted to, none
\* elsewhere), dispatched (no place in a queue, counted by the limiter that
\* runs it) or released (no place, not counted); every running count is
\* the number of tasks the limiter runs.
Conserved ==
    /\ \A t \in TaskIds :
           /\ t > submitted <=> tasks[t].st = "none"
           /\ \A l \in LimiterIds :
                  PlacesIn(l, t) =
                      IF tasks[t].st = "waiting" /\ tasks[t].home = l
                      THEN 1 ELSE 0
    /\ \A l \in LimiterIds :
           runningTasksNumber[l] =
               Cardinality({t \in TaskIds : InFlight(t) /\ tasks[t].runner = l})

\* C33: every state conserves the tasks, and whenever hasWaitingClients()
\* of a limiter is true, its dequeue() yields a task that was waiting; a
\* task goes only from waiting to dispatched and from dispatched to
\* released, is invoked once, and once released stays so.
C33_TaskConservation ==
    /\ [](/\ Conserved
          /\ \A l \in created :
                 HasWaitingClients(l, waitingTasks)
                 => tasks[Dequeue(l, waitingTasks).task].st = "waiting")
    /\ [][\A t \in TaskIds :
              /\ tasks[t].st = "timer" => tasks'[t].st \in {"timer", "running"}
              /\ tasks[t].st = "running"
                 => tasks'[t].st \in {"running", "released"}
              /\ tasks[t].st = "released" => tasks'[t].st = "released"]_vars

\* A task borrowed by a sibling limiter holds that limiter's slot, after a
\* task of the sibling was released, while the limiter it was submitted to
\* runs another.
C33_Witness ==
    /\ Conserved
    /\ \E t, u, v \in TaskIds :
           /\ tasks[t].st = "running"
           /\ tasks[t].runner # tasks[t].home
           /\ runningTasksNumber[tasks[t].runner] = 1
           /\ tasks[u].st = "running"
           /\ tasks[u].runner = tasks[t].home
           /\ tasks[v].st = "released"

====
